---- MODULE Spec2Model ----
(***************************************************************************)
(* A* search of the PAI-lab repository.                                    *)
(*   robopath.py : astar over a 2-D grid with blocked cells                *)
(*   week3.py    : EightPuzzleSolver over arrangements of the 3x3 board    *)
(* Each iteration of a search loop is one step of the model.               *)
(***************************************************************************)
EXTENDS Integers, Sequences, FiniteSets, TLC

VARIABLES
  \* ---- robopath.py: arguments of astar
  width, height, blocked, start, goal,
  \* ---- robopath.py: locals of astar
  open_heap,      \* the heap, as the set of its entries <<priority, g, point>>
  came_from,      \* Dict[Point, Optional[Point]]
  gscore,         \* Dict[Point, int]
  pushed,         \* the entries added by heappush so far, in order
  popped,         \* the entries removed by heappop so far, in order
  gpc,            \* position in astar: "idle", "loop", "done"
  gret            \* value returned by astar (None or the path)

gvars == <<width, height, blocked, start, goal, open_heap, came_from, gscore, pushed,
          popped, gpc, gret>>

\* ---- week3.py: argument of EightPuzzleSolver(...) and the solver object
VARIABLES
  initial_tiles,  \* the list passed to the constructor
  self_attrs,     \* names of the attributes of self assigned so far
  initial_state,  \* self.initial_state, as its tiles
  explored,       \* self.explored, a set of states (equal when tiles are equal)
  nodes_expanded, \* self.nodes_expanded
  \* ---- week3.py: locals of one solve() call
  open_set,       \* the heap, as the set of its entries <<f_score, counter, tiles>>
  counter,
  visited,
  nodes,          \* the PuzzleState objects pushed so far, by tiles
  ppushed,        \* the entries added by heappush in this call, in order
  ppopped,        \* the entries removed by heappop in this call, in order
  ppc,            \* position: "idle", "error", "ready", "loop"
  rets            \* the triples returned by the solve() calls so far, in order

pvars == <<initial_tiles, self_attrs, initial_state, explored, nodes_expanded,
           open_set, counter, visited, nodes, ppushed, ppopped, ppc, rets>>

vars == <<gvars, pvars>>

\* Python's None; also the value of astar when no path exists.  A path
\* returned by astar holds at least the goal, so it never equals None.
None == <<>>

\* ---- bounds of the grid inputs
MaxW == 3
MaxH == 2

Abs(n) == IF n < 0 THEN -n ELSE n

Reverse(s) == [i \in 1..Len(s) |-> s[Len(s) + 1 - i]]

\* ------------------------------------------------------------------------
\* robopath.py
\* ------------------------------------------------------------------------

\* a heuristic that weighs the distance three times
manhattanTriple(a, b) == 3 * (Abs(a[1] - b[1]) + Abs(a[2] - b[2]))

manhattan(a, b) == Abs(a[1] - b[1]) + Abs(a[2] - b[2])

\* neighbors with the left bound test off by one
neighborsLeftOff(pt, w, h) ==
  LET x == pt[1]
      y == pt[2]
  IN  (IF x > 1     THEN << <<x - 1, y>> >> ELSE <<>>) \o
      (IF x < w - 1 THEN << <<x + 1, y>> >> ELSE <<>>) \o
      (IF y > 0     THEN << <<x, y - 1>> >> ELSE <<>>) \o
      (IF y < h - 1 THEN << <<x, y + 1>> >> ELSE <<>>)

\* results, in the order of the four appends
neighbors(pt, w, h) ==
  LET x == pt[1]
      y == pt[2]
  IN  (IF x > 0     THEN << <<x - 1, y>> >> ELSE <<>>) \o
      (IF x < w - 1 THEN << <<x + 1, y>> >> ELSE <<>>) \o
      (IF y > 0     THEN << <<x, y - 1>> >> ELSE <<>>) \o
      (IF y < h - 1 THEN << <<x, y + 1>> >> ELSE <<>>)

\* an order that breaks ties of the priority by the larger g
EntryLessDeepFirst(a, b) ==
  \/ a[1] < b[1]
  \/ a[1] = b[1] /\ a[2] > b[2]
  \/ a[1] = b[1] /\ a[2] = b[2] /\ a[3][1] < b[3][1]
  \/ a[1] = b[1] /\ a[2] = b[2] /\ a[3][1] = b[3][1] /\ a[3][2] < b[3][2]

\* Python's order on the tuples (priority, g, (x, y)) of the heap
EntryLess(a, b) ==
  \/ a[1] < b[1]
  \/ a[1] = b[1] /\ a[2] < b[2]
  \/ a[1] = b[1] /\ a[2] = b[2] /\ a[3][1] < b[3][1]
  \/ a[1] = b[1] /\ a[2] = b[2] /\ a[3][1] = b[3][1] /\ a[3][2] < b[3][2]

\* a pop that prefers the goal's entry whenever the frontier holds one
HeapMinGoalFirst(heap) ==
  IF \E e \in heap : e[3] = goal
    THEN CHOOSE e \in heap : e[3] = goal /\ \A o \in heap : o[3] = goal => o[2] >= e[2]
    ELSE CHOOSE e \in heap : \A o \in heap \ {e} : EntryLess(e, o)

\* heapq.heappop: the smallest entry
HeapMin(heap) == CHOOSE e \in heap : \A o \in heap \ {e} : EntryLess(e, o)

\* the walk over came_from, before path.reverse()
RECURSIVE WalkBack(_, _)
WalkBack(node, cf) ==
  IF node = None THEN <<>> ELSE <<node>> \o WalkBack(cf[node], cf)

\* path reconstruction without path.reverse()
ReconstructPathNoReverse(current, cf) == WalkBack(current, cf)

ReconstructPath(current, cf) == Reverse(WalkBack(current, cf))

\* a search that ignores the blocked set
IsBlockedNever(nbr, blk) == FALSE

\* the test that skips a neighbour
IsBlocked(nbr, blk) == nbr \in blk

\* the test that guards a relaxation
Improves(nbr, tentative_g, gs) ==
  nbr \notin DOMAIN gs \/ tentative_g < gs[nbr]

\* the for loop over neighbors(current): st is [gs, heap, cf, pushed]
RECURSIVE Relax(_, _, _, _)
Relax(nbrs, i, current, st) ==
  IF i > Len(nbrs) THEN st
  ELSE LET nbr == nbrs[i]
           tentative_g == st.gs[current] + 1
       IN  IF IsBlocked(nbr, blocked) THEN Relax(nbrs, i + 1, current, st)
           ELSE IF Improves(nbr, tentative_g, st.gs)
             THEN Relax(nbrs, i + 1, current,
                    [gs   |-> (nbr :> tentative_g) @@ st.gs,
                     heap |-> st.heap \cup
                                {<<tentative_g + manhattan(nbr, goal), tentative_g, nbr>>},
                     cf   |-> (nbr :> current) @@ st.cf,
                     pushed |-> Append(st.pushed,
                                  <<tentative_g + manhattan(nbr, goal), tentative_g, nbr>>)])
             ELSE Relax(nbrs, i + 1, current, st)

\* the cells of a grid, and the cells on it or one cell outside it
Cells(w, h) == (0..(w - 1)) \X (0..(h - 1))
Around(w, h) == ((-1)..w) \X ((-1)..h)

\* main(): the built-in demo grid
MainDefaults ==
  [width |-> 5, height |-> 3, start |-> <<0, 0>>, goal |-> <<4, 2>>,
   blocked |-> {<<1, 0>>, <<1, 1>>, <<3, 1>>}]

\* nothing has been called yet
IdleGrid ==
  /\ width = 0 /\ height = 0 /\ blocked = {} /\ start = None /\ goal = None
  /\ open_heap = {} /\ came_from = <<>> /\ gscore = <<>>
  /\ pushed = <<>> /\ popped = <<>>
  /\ gpc = "idle" /\ gret = None

\* astar(s, g, w, h, b), up to the while loop
AstarCall(s, g, w, h, b) ==
  /\ width' = w /\ height' = h /\ blocked' = b
  /\ start' = s /\ goal' = g
  /\ open_heap' = {<<manhattan(s, g), 0, s>>}
  /\ pushed' = << <<manhattan(s, g), 0, s>> >>
  /\ came_from' = (s :> None)
  /\ gscore' = (s :> 0)
  /\ gpc' = "loop"
  /\ UNCHANGED <<popped, gret>>
  /\ UNCHANGED pvars

\* a call of astar on the demo grid or on a grid of up to MaxW x MaxH cells
AstarEnter ==
  /\ gpc = "idle" /\ ppc = "idle"
  /\ \/ AstarCall(MainDefaults.start, MainDefaults.goal, MainDefaults.width,
                   MainDefaults.height, MainDefaults.blocked)
     \/ \E w \in 1..MaxW, h \in 1..MaxH :
          \E s \in Around(w, h), g \in Around(w, h), b \in SUBSET Cells(w, h) :
            AstarCall(s, g, w, h, b)

\* one iteration of the while loop that pops the goal
AstarGoal ==
  /\ gpc = "loop"
  /\ open_heap # {}
  /\ LET e == HeapMin(open_heap)
         current == e[3]
     IN  /\ current = goal
         /\ open_heap' = open_heap \ {e}
         /\ popped' = Append(popped, e)
         /\ gret' = ReconstructPath(current, came_from)
         /\ gpc' = "done"
  /\ UNCHANGED <<width, height, blocked, start, goal, came_from, gscore, pushed>>
  /\ UNCHANGED pvars

\* one iteration of the while loop that expands a cell
AstarExpand ==
  /\ gpc = "loop"
  /\ open_heap # {}
  /\ LET e == HeapMin(open_heap)
         current == e[3]
         st == Relax(neighbors(current, width, height), 1, current,
                     [gs |-> gscore, heap |-> open_heap \ {e}, cf |-> came_from,
                      pushed |-> pushed])
     IN  /\ current # goal
         /\ open_heap' = st.heap
         /\ gscore' = st.gs
         /\ came_from' = st.cf
         /\ pushed' = st.pushed
         /\ popped' = Append(popped, e)
  /\ UNCHANGED <<width, height, blocked, start, goal, gpc, gret>>
  /\ UNCHANGED pvars

\* the frontier is empty: return None
AstarFail ==
  /\ gpc = "loop"
  /\ open_heap = {}
  /\ gret' = None
  /\ gpc' = "done"
  /\ UNCHANGED <<width, height, blocked, start, goal, open_heap, came_from, gscore,
                 pushed, popped>>
  /\ UNCHANGED pvars

\* ------------------------------------------------------------------------
\* week3.py
\* ------------------------------------------------------------------------

\* ---- bounds of the puzzle inputs
MaxScramble == 4    \* initial arrangements up to this many moves from the goal
MaxCalls == 2       \* solve() calls on one solver object

\* goal in PuzzleState.heuristic
Goal == <<1, 2, 3, 4, 5, 6, 7, 8, 0>>

\* tuple.index(v), 0-based
Index(t, v) == (CHOOSE i \in 1..Len(t) : t[i] = v /\ \A j \in 1..(i - 1) : t[j] # v) - 1

\* a heuristic that also counts the distance of the blank
RECURSIVE HeuristicFromWithBlank(_, _)
HeuristicFromWithBlank(tiles, i) ==
  IF i > 8 THEN 0
  ELSE (LET goal_pos == Index(Goal, tiles[i + 1])
        IN  Abs((i \div 3) - (goal_pos \div 3)) + Abs((i % 3) - (goal_pos % 3)))
       + HeuristicFromWithBlank(tiles, i + 1)

\* a heuristic that leaves out the column distance
RECURSIVE HeuristicFromRowsOnly(_, _)
HeuristicFromRowsOnly(tiles, i) ==
  IF i > 8 THEN 0
  ELSE (IF tiles[i + 1] # 0
          THEN LET goal_pos == Index(Goal, tiles[i + 1])
               IN  Abs((i \div 3) - (goal_pos \div 3))
          ELSE 0)
       + HeuristicFromRowsOnly(tiles, i + 1)

\* PuzzleState.heuristic: the loop over range(9), from position i on
RECURSIVE HeuristicFrom(_, _)
HeuristicFrom(tiles, i) ==
  IF i > 8 THEN 0
  ELSE (IF tiles[i + 1] # 0
          THEN LET goal_pos == Index(Goal, tiles[i + 1])
               IN  Abs((i \div 3) - (goal_pos \div 3)) + Abs((i % 3) - (goal_pos % 3))
          ELSE 0)
       + HeuristicFrom(tiles, i + 1)

heuristic(tiles) == HeuristicFrom(tiles, 0)

is_goal(tiles) == heuristic(tiles) = 0

\* directions, in the insertion order of the dict
Directions ==
  << [name |-> "up", dr |-> -1, dc |-> 0], [name |-> "down", dr |-> 1, dc |-> 0],
     [name |-> "left", dr |-> 0, dc |-> -1], [name |-> "right", dr |-> 0, dc |-> 1] >>

\* the swap of blank_pos and new_pos (0-based) in a copy of the tiles
Swap(tiles, blank_pos, new_pos) ==
  [tiles EXCEPT ![blank_pos + 1] = tiles[new_pos + 1],
                ![new_pos + 1] = tiles[blank_pos + 1]]

\* a validity test on the new position alone, which lets the blank wrap
\* around the end of a row
InBoardByPosition(new_row, new_col) ==
  0 <= new_row * 3 + new_col /\ new_row * 3 + new_col < 9

\* the test that the new position is valid
InBoard(new_row, new_col) ==
  0 <= new_row /\ new_row < 3 /\ 0 <= new_col /\ new_col < 3

\* PuzzleState.get_moves of the state with these tiles and moves: the list
\* of the new PuzzleState objects, parent given by its tiles
RECURSIVE MovesFrom(_, _, _)
MovesFrom(tiles, moves, d) ==
  IF d > Len(Directions) THEN <<>>
  ELSE LET blank_pos == Index(tiles, 0)
           new_row == (blank_pos \div 3) + Directions[d].dr
           new_col == (blank_pos % 3) + Directions[d].dc
       IN  (IF InBoard(new_row, new_col)
              THEN << [tiles |-> Swap(tiles, blank_pos, new_row * 3 + new_col),
                       moves |-> moves + 1,
                       parent |-> tiles,
                       move_description |-> Directions[d].name] >>
              ELSE <<>>)
           \o MovesFrom(tiles, moves, d + 1)

\* successors that keep the move count of their parent
get_movesSameCount(tiles, moves) == MovesFrom(tiles, moves - 1, 1)

get_moves(tiles, moves) == MovesFrom(tiles, moves, 1)

\* sorted(list), by insertion
RECURSIVE Insert(_, _)
Insert(v, s) ==
  IF s = <<>> THEN <<v>>
  ELSE IF v <= Head(s) THEN <<v>> \o s ELSE <<Head(s)>> \o Insert(v, Tail(s))

RECURSIVE sorted(_)
sorted(s) == IF s = <<>> THEN <<>> ELSE Insert(Head(s), sorted(Tail(s)))

\* list(range(9))
Range9 == [i \in 1..9 |-> i - 1]

\* validation of the length only
InvalidLengthOnly(tiles) == Len(tiles) # 9

\* the condition under which __init__ raises ValueError
Invalid(tiles) == Len(tiles) # 9 \/ sorted(tiles) # Range9

\* entries ordered by the counter alone (first in, first out)
PEntryLessFifo(a, b) == a[2] < b[2]

\* heapq.heappop on entries (f_score, counter, state)
PEntryLess(a, b) == a[1] < b[1] \/ (a[1] = b[1] /\ a[2] < b[2])

PHeapMin(heap) == CHOOSE e \in heap : \A o \in heap \ {e} : PEntryLess(e, o)

\* the walk over node.parent, before path.reverse()
RECURSIVE PWalkBack(_, _)
PWalkBack(node, objs) ==
  IF node = None THEN <<>>
  ELSE <<[tiles |-> node, moves |-> objs[node].moves]>> \o PWalkBack(objs[node].parent, objs)

\* path reconstruction without path.reverse()
PReconstructPathNoReverse(current, objs) == PWalkBack(current, objs)

PReconstructPath(current, objs) == Reverse(PWalkBack(current, objs))

\* the test that guards a push
Unvisited(tiles, seen) == tiles \notin seen

\* the for loop over current.get_moves(): st is [heap, counter, visited, nodes, pushed]
RECURSIVE Explore(_, _, _)
Explore(succs, i, st) ==
  IF i > Len(succs) THEN st
  ELSE LET next_state == succs[i]
       IN  IF Unvisited(next_state.tiles, st.visited)
             THEN Explore(succs, i + 1,
                    [heap    |-> st.heap \cup
                                   {<<next_state.moves + heuristic(next_state.tiles),
                                      st.counter, next_state.tiles>>},
                     counter |-> st.counter + 1,
                     visited |-> st.visited \cup {next_state.tiles},
                     nodes   |-> (next_state.tiles :>
                                    [moves |-> next_state.moves,
                                     parent |-> next_state.parent,
                                     move_description |-> next_state.move_description])
                                 @@ st.nodes,
                     pushed  |-> Append(st.pushed,
                                   <<next_state.moves + heuristic(next_state.tiles),
                                     st.counter, next_state.tiles>>)])
             ELSE Explore(succs, i + 1, st)

\* ---- the inputs of the constructor
RECURSIVE Scramble(_)
Scramble(k) ==
  IF k = 0 THEN {Goal}
  ELSE LET S == Scramble(k - 1)
       IN  S \cup UNION {{m.tiles : m \in {get_moves(t, 0)[j] : j \in 1..Len(get_moves(t, 0))}} : t \in S}

\* initial_state_1, initial_state_2 and initial_state_4 of main()
MainExamples ==
  {<<1, 2, 3, 4, 5, 6, 7, 0, 8>>, <<1, 2, 3, 4, 0, 5, 7, 8, 6>>, <<1, 2, 3, 4, 5, 6, 7, 8, 0>>}

\* an arrangement eleven moves from the goal
DeepExample == <<1, 2, 3, 8, 6, 7, 4, 0, 5>>

ValidInputs == Scramble(MaxScramble) \cup MainExamples \cup {DeepExample}

\* lists that are too short, too long, or have one entry replaced
BrokenInputs ==
  {<<>>} \cup
  UNION {{SubSeq(t, 1, 8)} \cup {t \o <<v>> : v \in 0..9}
           \cup {[t EXCEPT ![i] = v] : i \in 1..9, v \in (-1)..9} : t \in MainExamples}

IdlePuzzle ==
  /\ initial_tiles = None /\ self_attrs = {} /\ initial_state = None
  /\ explored = {} /\ nodes_expanded = 0
  /\ open_set = {} /\ counter = 0 /\ visited = {} /\ nodes = <<>>
  /\ ppushed = <<>> /\ ppopped = <<>>
  /\ ppc = "idle" /\ rets = <<>>

PuzzleInputs == ValidInputs \cup BrokenInputs

\* EightPuzzleSolver(initial_tiles) raising ValueError
InitRaise ==
  /\ ppc = "idle" /\ gpc = "idle"
  /\ \E tiles \in PuzzleInputs :
       /\ Invalid(tiles)
       /\ initial_tiles' = tiles
  /\ ppc' = "error"
  /\ UNCHANGED <<self_attrs, initial_state, explored, nodes_expanded,
                 open_set, counter, visited, nodes, ppushed, ppopped, rets>>
  /\ UNCHANGED gvars

\* EightPuzzleSolver(initial_tiles) completing
InitOk ==
  /\ ppc = "idle" /\ gpc = "idle"
  /\ \E tiles \in PuzzleInputs :
       /\ ~Invalid(tiles)
       /\ initial_tiles' = tiles
       /\ initial_state' = tiles
  /\ explored' = {}
  /\ nodes_expanded' = 0
  /\ self_attrs' = {"initial_state", "goal_state", "explored", "nodes_expanded"}
  /\ ppc' = "ready"
  /\ UNCHANGED <<open_set, counter, visited, nodes, ppushed, ppopped, rets>>
  /\ UNCHANGED gvars

\* solve() without the early return: the initial state is pushed, popped
\* and counted before the goal test
SolveTrivialCounted ==
  /\ ppc = "ready"
  /\ Len(rets) < MaxCalls
  /\ is_goal(initial_state)
  /\ explored' = explored \cup {initial_state}
  /\ nodes_expanded' = nodes_expanded + 1
  /\ rets' = Append(rets, [success |-> TRUE,
                           path |-> <<[tiles |-> initial_state, moves |-> 0]>>,
                           nodes_expanded |-> nodes_expanded + 1])
  /\ UNCHANGED <<initial_tiles, self_attrs, initial_state,
                 open_set, counter, visited, nodes, ppushed, ppopped, ppc>>
  /\ UNCHANGED gvars

\* solve() when the initial state is the goal
SolveTrivial ==
  /\ ppc = "ready"
  /\ Len(rets) < MaxCalls
  /\ is_goal(initial_state)
  /\ rets' = Append(rets, [success |-> TRUE,
                           path |-> <<[tiles |-> initial_state, moves |-> 0]>>,
                           nodes_expanded |-> 0])
  /\ UNCHANGED <<initial_tiles, self_attrs, initial_state, explored, nodes_expanded,
                 open_set, counter, visited, nodes, ppushed, ppopped, ppc>>
  /\ UNCHANGED gvars

\* solve(), up to the while loop
SolveEnter ==
  /\ ppc = "ready"
  /\ Len(rets) < MaxCalls
  /\ ~is_goal(initial_state)
  /\ open_set' = {<<heuristic(initial_state), 0, initial_state>>}
  /\ ppushed' = << <<heuristic(initial_state), 0, initial_state>> >>
  /\ ppopped' = <<>>
  /\ counter' = 1
  /\ visited' = {initial_state}
  /\ nodes' = (initial_state :> [moves |-> 0, parent |-> None, move_description |-> ""])
  /\ ppc' = "loop"
  /\ UNCHANGED <<initial_tiles, self_attrs, initial_state, explored, nodes_expanded, rets>>
  /\ UNCHANGED gvars

\* one iteration of the while loop that pops a goal state
SolveGoal ==
  /\ ppc = "loop"
  /\ open_set # {}
  /\ LET e == PHeapMin(open_set)
         current == e[3]
     IN  /\ is_goal(current)
         /\ open_set' = open_set \ {e}
         /\ explored' = explored \cup {current}
         /\ nodes_expanded' = nodes_expanded + 1
         /\ rets' = Append(rets, [success |-> TRUE,
                                  path |-> PReconstructPath(current, nodes),
                                  nodes_expanded |-> nodes_expanded + 1])
         /\ ppopped' = Append(ppopped, e)
         /\ ppc' = "ready"
  /\ UNCHANGED <<initial_tiles, self_attrs, initial_state, counter, visited, nodes, ppushed>>
  /\ UNCHANGED gvars

\* one iteration of the while loop that expands a state
SolveExpand ==
  /\ ppc = "loop"
  /\ open_set # {}
  /\ LET e == PHeapMin(open_set)
         current == e[3]
         st == Explore(get_moves(current, nodes[current].moves), 1,
                       [heap |-> open_set \ {e}, counter |-> counter,
                        visited |-> visited, nodes |-> nodes, pushed |-> ppushed])
     IN  /\ ~is_goal(current)
         /\ explored' = explored \cup {current}
         /\ nodes_expanded' = nodes_expanded + 1
         /\ open_set' = st.heap
         /\ counter' = st.counter
         /\ visited' = st.visited
         /\ nodes' = st.nodes
         /\ ppushed' = st.pushed
         /\ ppopped' = Append(ppopped, e)
  /\ UNCHANGED <<initial_tiles, self_attrs, initial_state, ppc, rets>>
  /\ UNCHANGED gvars

\* the frontier is empty: return (False, [], self.nodes_expanded)
SolveFail ==
  /\ ppc = "loop"
  /\ open_set = {}
  /\ rets' = Append(rets, [success |-> FALSE, path |-> <<>>,
                           nodes_expanded |-> nodes_expanded])
  /\ ppc' = "ready"
  /\ UNCHANGED <<initial_tiles, self_attrs, initial_state, explored, nodes_expanded,
                 open_set, counter, visited, nodes, ppushed, ppopped>>
  /\ UNCHANGED gvars

\* ------------------------------------------------------------------------
\* specifications
\* ------------------------------------------------------------------------

\* a behaviour is one call of astar, or the construction of one solver
\* object and the solve() calls made on it
Init == IdleGrid /\ IdlePuzzle

Next ==
  \/ AstarEnter
  \/ AstarGoal
  \/ AstarExpand
  \/ AstarFail
  \/ InitRaise
  \/ InitOk
  \/ SolveTrivial
  \/ SolveEnter
  \/ SolveGoal
  \/ SolveExpand

Spec == Init /\ [][Next]_vars

\* the same with the exhaustion of the puzzle frontier, which takes the
\* expansion of all 181440 arrangements reachable from an unsolvable one
NextFull == Next \/ SolveFail

SpecFull == Init /\ [][NextFull]_vars

\* ------------------------------------------------------------------------
\* reference notions used by the properties
\* ------------------------------------------------------------------------

Last(s) == s[Len(s)]

Elems(s) == {s[i] : i \in 1..Len(s)}

\* the goal arrangement of the 8-puzzle
GoalArrangement == <<1, 2, 3, 4, 5, 6, 7, 8, 0>>

\* one 4-directional unit move from c into an in-bounds, non-blocked cell
UnitMoves(c) ==
  {n \in Cells(width, height) \ blocked :
     \/ n[1] = c[1] /\ (n[2] = c[2] + 1 \/ n[2] = c[2] - 1)
     \/ n[2] = c[2] /\ (n[1] = c[1] + 1 \/ n[1] = c[1] - 1)}

\* breadth-first distance from the frontier (at distance d) to the goal; -1 if none
RECURSIVE GridBFS(_, _, _)
GridBFS(frontier, seen, d) ==
  IF goal \in frontier THEN d
  ELSE LET nxt == (UNION {UnitMoves(c) : c \in frontier}) \ seen
       IN  IF nxt = {} THEN -1 ELSE GridBFS(nxt, seen \cup nxt, d + 1)

GridDistFrom(c) == GridBFS({c}, {c}, 0)

GridDist == GridDistFrom(start)

\* the grid's states are the cells of the grid (spec, data model)
StartOnGrid == start \in Cells(width, height)

\* the arrangements one get_moves step away
PuzzleSucc(t) == {m.tiles : m \in Elems(get_moves(t, 0))}

\* breadth-first distance over get_moves to the goal arrangement; -1 if none
RECURSIVE PuzzleBFS(_, _, _)
PuzzleBFS(frontier, seen, d) ==
  IF GoalArrangement \in frontier THEN d
  ELSE LET nxt == (UNION {PuzzleSucc(t) : t \in frontier}) \ seen
       IN  IF nxt = {} THEN -1 ELSE PuzzleBFS(nxt, seen \cup nxt, d + 1)

PuzzleDist(t) == PuzzleBFS({t}, {t}, 0)

\* ------------------------------------------------------------------------
\* properties
\* ------------------------------------------------------------------------

\* C1: whenever the goal is reachable from the initial arrangement, every
\* solve() call returns success with a path whose number of moves is the
\* breadth-first distance over get_moves from the initial arrangement.
C1_PuzzleOptimal ==
  \A k \in 1..Len(rets) :
    PuzzleDist(initial_state) >= 0 =>
      /\ rets[k].success
      /\ Len(rets[k].path) - 1 = PuzzleDist(initial_state)

\* C2: when astar has returned for a start on the grid from which the goal
\* is reachable, it has returned a path whose number of edges is the
\* breadth-first distance from start to goal.
C2_GridOptimal ==
  (gpc = "done" /\ StartOnGrid /\ GridDist >= 0) =>
    (gret # None /\ Len(gret) - 1 = GridDist)

\* a returned shortest path that is a detour around blocked cells
C2_Witness ==
  /\ gpc = "done" /\ StartOnGrid /\ gret # None
  /\ Len(gret) - 1 = GridDist
  /\ GridDist > manhattan(start, goal)

OnDemoGrid ==
  /\ width = 5 /\ height = 3
  /\ blocked = {<<1, 0>>, <<1, 1>>, <<3, 1>>}
  /\ start = <<0, 0>> /\ goal = <<4, 2>>

\* C4 as stated: on the demo grid astar returns a path from start to goal of
\* 7 edges that contains no blocked cell.
C4_DemoSevenEdges ==
  (OnDemoGrid /\ gpc = "done") =>
    /\ gret # None
    /\ gret[1] = start /\ Last(gret) = goal
    /\ Len(gret) - 1 = 7
    /\ Elems(gret) \cap blocked = {}

\* C4 amended: on the demo grid astar returns a path from start to goal of
\* 6 edges (7 cells) that contains no blocked cell.
C4_DemoSixEdges ==
  (OnDemoGrid /\ gpc = "done") =>
    /\ gret # None
    /\ gret[1] = start /\ Last(gret) = goal
    /\ Len(gret) - 1 = 6
    /\ Elems(gret) \cap blocked = {}

C4_Witness == OnDemoGrid /\ gpc = "done" /\ gret # None /\ Len(gret) = 7

\* C5: a search whose start is the goal returns the path [start]; solve()
\* on the goal arrangement returns (True, [initial_state], 0) on every call.
C5_TrivialCase ==
  /\ (gpc = "done" /\ start = goal) => gret = <<start>>
  /\ initial_state = GoalArrangement =>
       \A k \in 1..Len(rets) :
         rets[k] = [success |-> TRUE,
                    path |-> <<[tiles |-> initial_state, moves |-> 0]>>,
                    nodes_expanded |-> 0]

C5_Witness == initial_state = GoalArrangement /\ Len(rets) >= 2

\* C6: a returned path starts at the start state, ends at the goal state and
\* every consecutive pair is one step of the successor generator.
C6_Contiguous ==
  /\ (gpc = "done" /\ gret # None) =>
       /\ gret[1] = start
       /\ Last(gret) = goal
       /\ \A i \in 1..(Len(gret) - 1) :
            /\ gret[i + 1] \in Elems(neighbors(gret[i], width, height))
            /\ gret[i + 1] \notin blocked
  /\ \A k \in 1..Len(rets) :
       rets[k].success =>
         LET path == rets[k].path
         IN  /\ path[1].tiles = initial_state
             /\ Last(path).tiles = GoalArrangement
             /\ \A i \in 1..(Len(path) - 1) :
                  path[i + 1].tiles \in PuzzleSucc(path[i].tiles)

C6_Witness == Len(rets) >= 1 /\ rets[1].success /\ Len(rets[1].path) >= 5

\* every step of the search loop pops one entry, so a bound on the pops
\* is a bound on the iterations
PopBound == Cardinality(Cells(width, height)) * Cardinality(Cells(width, height))

\* C7: in a call of astar with the start on the grid and no sequence of
\* moves from start to goal, the loop runs at most PopBound iterations, the
\* goal is never recorded, and the value returned is None.
C7_Unreachable ==
  (gpc # "idle" /\ StartOnGrid /\ GridDist = -1) =>
    /\ Len(popped) <= PopBound
    /\ goal \notin DOMAIN gscore
    /\ gpc = "done" => (gret = None /\ open_heap = {})

\* the frontier was exhausted after expanding several cells
C7_Witness ==
  /\ gpc = "done" /\ StartOnGrid /\ goal \in Cells(width, height)
  /\ GridDist = -1 /\ gret = None
  /\ Cardinality(DOMAIN gscore) >= 3

\* exactly one of each value 0..8
IsPermutation(t) == Len(t) = 9 /\ \A v \in 0..8 : \E i \in 1..9 : t[i] = v

\* C9: the constructor raises exactly for the lists that are not a
\* permutation of 0..8, and then no attribute of the solver has been set
\* and no search step has run.
C9_Validation ==
  ppc # "idle" =>
    /\ (ppc = "error") <=> ~IsPermutation(initial_tiles)
    /\ ppc = "error" =>
         /\ self_attrs = {} /\ initial_state = None
         /\ open_set = {} /\ visited = {} /\ rets = <<>>
    /\ ppc # "error" =>
         /\ {"initial_state", "explored", "nodes_expanded"} \subseteq self_attrs
         /\ initial_state = initial_tiles

\* a list of nine entries rejected for a repeated value
C9_Witness == ppc = "error" /\ Len(initial_tiles) = 9

\* C10: every solve() call on one solver returns the same success flag,
\* path length and nodes_expanded as the first call.
C10_SameTriple ==
  \A k \in 1..Len(rets) :
    /\ rets[k].success = rets[1].success
    /\ Len(rets[k].path) = Len(rets[1].path)
    /\ rets[k].nodes_expanded = rets[1].nodes_expanded

\* the tie-break keys of a push log are strictly increasing
KeysIncrease(log) ==
  \A i \in 1..Len(log) : \A j \in 1..Len(log) : i < j => log[i][2] < log[j][2]

\* no two entries of a frontier share their (priority, tie-break key) pair
KeysDistinct(heap) ==
  \A a \in heap : \A b \in heap : a # b => <<a[1], a[2]>> # <<b[1], b[2]>>

\* C11: in both searches every pushed entry carries a tie-break key strictly
\* greater than the key of every entry pushed before it, and no two frontier
\* entries share their (priority, tie-break key) pair.
C11_TieBreakCounter ==
  /\ KeysIncrease(pushed) /\ KeysDistinct(open_heap)
  /\ KeysIncrease(ppushed) /\ KeysDistinct(open_set)

\* e is ordered before o, or level with it, by (priority, tie-break key)
KeyLeq(e, o) == e[1] < o[1] \/ (e[1] = o[1] /\ e[2] <= o[2])

\* this step is a successful return of astar / of solve()
GridSuccess == gpc # "done" /\ gpc' = "done" /\ gret' # None
PuzzleSuccess == Len(rets') = Len(rets) + 1 /\ rets'[Len(rets')].success

\* this step removes the goal's entry, the smallest of the frontier
GridPopsGoal ==
  \E e \in open_heap :
    /\ e[3] = goal
    /\ open_heap' = open_heap \ {e}
    /\ popped' = Append(popped, e)
    /\ \A o \in open_heap : KeyLeq(e, o)

PuzzlePopsGoal ==
  \E e \in open_set :
    /\ e[3] = GoalArrangement
    /\ open_set' = open_set \ {e}
    /\ ppopped' = Append(ppopped, e)
    /\ \A o \in open_set : KeyLeq(e, o)

\* this step generates the goal as a successor of the state it expands
GridGeneratesGoal == gpc = "loop" /\ goal \notin DOMAIN gscore /\ goal \in DOMAIN gscore'
PuzzleGeneratesGoal ==
  ppc = "loop" /\ GoalArrangement \notin visited /\ GoalArrangement \in visited'

\* C12 as stated: in both searches every successful return is a step that
\* removes the goal's entry as the smallest of the frontier, and a step that
\* generates the goal does not end the search.
C12_NoEarlyStop ==
  [][/\ GridSuccess => GridPopsGoal
     /\ PuzzleSuccess => PuzzlePopsGoal
     /\ GridGeneratesGoal => (gpc' = "loop" /\ gret' = gret)
     /\ PuzzleGeneratesGoal => (ppc' = "loop" /\ rets' = rets)]_vars

\* C12 amended: the same for every successful return from a search loop;
\* the one successful return outside the loop is solve() on a solver whose
\* initial state is the goal, which returns before a frontier exists.
C12_NoEarlyStopInLoop ==
  [][/\ GridSuccess => GridPopsGoal
     /\ (PuzzleSuccess /\ ppc = "loop") => PuzzlePopsGoal
     /\ (PuzzleSuccess /\ ppc # "loop") =>
          (initial_state = GoalArrangement /\ open_set' = open_set /\ ppopped' = ppopped)
     /\ GridGeneratesGoal => (gpc' = "loop" /\ gret' = gret)
     /\ PuzzleGeneratesGoal => (ppc' = "loop" /\ rets' = rets)]_vars

\* the goal is on the frontier behind another entry and the search goes on
C12_Witness ==
  /\ gpc = "loop"
  /\ \E e \in open_heap : \E o \in open_heap :
       e[3] = goal /\ o[3] # goal /\ KeyLeq(o, e) /\ ~KeyLeq(e, o)

\* C13: in a grid search every recorded cell other than start has a
\* recorded predecessor with a strictly smaller g-score, only start has the
\* predecessor None, and the backward walk from a recorded cell c reaches
\* start in at most gscore[c] steps; in the puzzle search every generated
\* state other than the initial one has moves = its parent's moves + 1.
C13_Predecessors ==
  /\ gpc # "idle" =>
       /\ DOMAIN came_from = DOMAIN gscore
       /\ came_from[start] = None /\ gscore[start] = 0
       /\ \A c \in DOMAIN gscore \ {start} :
            /\ came_from[c] # None
            /\ came_from[c] \in DOMAIN gscore
            /\ gscore[came_from[c]] < gscore[c]
       /\ \A c \in DOMAIN gscore :
            LET walk == WalkBack(c, came_from)
            IN  Last(walk) = start /\ Len(walk) - 1 <= gscore[c]
  /\ \A t \in DOMAIN nodes :
       IF t = initial_state
         THEN nodes[t].parent = None /\ nodes[t].moves = 0
         ELSE /\ nodes[t].parent \in DOMAIN nodes
              /\ nodes[nodes[t].parent].moves = nodes[t].moves - 1

\* a grid search that has recorded a cell three steps away from start
C13_Witness ==
  /\ gpc = "loop" /\ blocked # {}
  /\ \E c \in DOMAIN gscore : gscore[c] >= 3 /\ came_from[c] # start

\* C14: in a grid search no cell is popped twice, and no frontier entry
\* carries a g that differs from the recorded g-score of its cell (so no
\* popped entry is stale).
C14_NoReExpansion ==
  /\ \A i \in 1..Len(popped) : \A j \in 1..Len(popped) :
       i # j => popped[i][3] # popped[j][3]
  /\ \A e \in open_heap : e[2] = gscore[e[3]]
  /\ Len(pushed) = Cardinality(DOMAIN gscore)

\* a search around blocked cells that has expanded several cells
C14_Witness ==
  /\ gpc = "done" /\ gret # None /\ blocked # {}
  /\ Len(popped) >= 5
  /\ Len(gret) - 1 > manhattan(start, goal)

\* C15: every cell of a path returned by astar lies on the grid and is not
\* blocked, whatever start and goal were passed.
C15_PathOnFreeCells ==
  (gpc = "done" /\ gret # None) =>
    \A c \in Elems(gret) : c \in Cells(width, height) /\ c \notin blocked

\* positions p and q (0-based, row-major) of the 3x3 board are orthogonally
\* adjacent
BoardAdjacent(p, q) ==
  LET pr == p \div 3
      pc == p % 3
      qr == q \div 3
      qc == q % 3
  IN  \/ pr = qr /\ (pc = qc + 1 \/ qc = pc + 1)
      \/ pc = qc /\ (pr = qr + 1 \/ qr = pr + 1)

\* the arrangement t with the entries at positions p and q exchanged
Exchanged(t, p, q) ==
  [i \in 1..9 |-> IF i = p + 1 THEN t[q + 1] ELSE IF i = q + 1 THEN t[p + 1] ELSE t[i]]

\* the arrangements obtained from t by sliding the blank to an adjacent cell
BlankSlides(t) ==
  LET b == CHOOSE p \in 0..8 : t[p + 1] = 0
  IN  {Exchanged(t, b, q) : q \in {q \in 0..8 : BoardAdjacent(b, q)}}

\* C16: for every arrangement t the search has generated, get_moves returns
\* exactly the arrangements obtained by sliding the blank to an orthogonally
\* adjacent cell, each once; each result is a permutation of 0..8 whose
\* moves is the moves of t plus 1 and whose parent still has the tiles t.
C16_GetMoves ==
  \A t \in visited :
    LET r == get_moves(t, nodes[t].moves)
    IN  /\ {r[i].tiles : i \in 1..Len(r)} = BlankSlides(t)
        /\ Len(r) = Cardinality(BlankSlides(t))
        /\ \A i \in 1..Len(r) :
             /\ IsPermutation(r[i].tiles)
             /\ r[i].moves = nodes[t].moves + 1
             /\ r[i].parent = t
             /\ r[i].tiles # t

\* states with the blank in a corner, on an edge and in the centre have
\* been expanded
C16_Witness ==
  /\ ppc = "loop"
  /\ \E a \in explored, b \in explored, c \in explored :
       /\ a \in visited /\ b \in visited /\ c \in visited
       /\ Len(get_moves(a, 0)) = 2 /\ Len(get_moves(b, 0)) = 3 /\ Len(get_moves(c, 0)) = 4

\* the arrangements of a returned path
PathTiles(ret) == {ret.path[i].tiles : i \in 1..Len(ret.path)}

\* C17: the heuristic of the initial arrangement and of every arrangement
\* of a returned path is a natural number not above its breadth-first
\* distance to the goal; for every cell of the grid a finished search has
\* scored, manhattan(cell, goal) is not above the breadth-first distance
\* from the cell to the goal, when the goal is reachable from it.
C17_Admissible ==
  /\ ppc = "ready" =>
       \A t \in {initial_state} \cup UNION {PathTiles(rets[k]) : k \in 1..Len(rets)} :
         /\ heuristic(t) \in Nat
         /\ heuristic(t) <= PuzzleDist(t)
  /\ gpc = "done" =>
       \A c \in DOMAIN gscore \cap Cells(width, height) :
         /\ manhattan(c, goal) \in Nat
         /\ GridDistFrom(c) >= 0 => manhattan(c, goal) <= GridDistFrom(c)

\* a solved instance whose heuristic is strictly below the distance
C17_Witness ==
  /\ ppc = "ready" /\ Len(rets) >= 1
  /\ heuristic(initial_state) > 0
  /\ heuristic(initial_state) < PuzzleDist(initial_state)

\* C18: is_goal holds of an arrangement exactly when it is the goal
\* arrangement, for the initial arrangement and every arrangement the
\* search has generated, and every successful solve() returns a path whose
\* last state is the goal arrangement.
C18_GoalTest ==
  /\ \A t \in visited \cup ({initial_state} \ {None}) :
       is_goal(t) <=> t = GoalArrangement
  /\ \A k \in 1..Len(rets) :
       rets[k].success => Last(rets[k].path).tiles = GoalArrangement

\* a successful search that has tested several arrangements
C18_Witness ==
  /\ Len(rets) >= 1 /\ rets[1].success
  /\ Cardinality(visited) >= 10 /\ GoalArrangement \in visited

\* the priorities of a pop log never decrease
PrioritiesMonotone(log) ==
  \A i \in 1..Len(log) : \A j \in 1..Len(log) : i < j => log[i][1] <= log[j][1]

\* C19: in both searches the priorities of the entries popped in one search
\* form a non-decreasing sequence.
C19_MonotonePops == PrioritiesMonotone(popped) /\ PrioritiesMonotone(ppopped)

\* a puzzle search whose popped priorities have risen
C19_Witness ==
  /\ Len(ppopped) >= 5
  /\ ppopped[1][1] < ppopped[Len(ppopped)][1]

====
